---- MODULE Spec2Model ----
(***************************************************************************)
(* Model of src/main.rs: Arduino-style micros() for the ATmega328P.        *)
(*                                                                         *)
(* Two execution contexts share one CPU: main() and the TIMER0_COMPA       *)
(* interrupt handler.  The handler can be vectored only while the global   *)
(* interrupt flag (SREG.I) is set, the compare-match interrupt is enabled  *)
(* (TIMSK0.OCIE0A) and a compare match is latched (TIFR0.OCF0A).           *)
(*                                                                         *)
(* MICROS_COUNTER is a u32 in SRAM.  The checker's integers are 32-bit     *)
(* signed, so a u32 is kept as its four bytes, least significant first,    *)
(* which is also how the 8-bit CPU reads it: one byte per load.            *)
(***************************************************************************)
EXTENDS Integers, Sequences, FiniteSets

\* ------------------------------------------------------------------ bounds
\* Compare matches the timer produces in one behaviour.
MaxTriggers == 3
\* Bytes that arrive on the serial port in one behaviour.
MaxBytes == 2
\* Depth of interrupt frames the model can represent (the code never nests).
MaxNest == 2
\* Calls of micros_init made by the initialization harness (SpecInit).
MaxInitCalls == 2

\* Byte values the serial line delivers.
Bytes == {65, 255}

\* ------------------------------------------------------------- u32 values
Zero == <<0, 0, 0, 0>>

Lo(c) == c[1] + 256 * c[2]
Hi(c) == c[3] + 256 * c[4]
FromLimbs(lo, hi) == <<lo % 256, lo \div 256, hi % 256, hi \div 256>>

\* a <= b as unsigned 32-bit numbers
LeqU32(a, b) == Hi(a) < Hi(b) \/ (Hi(a) = Hi(b) /\ Lo(a) <= Lo(b))

\* c + inc leaves the u32 range (inc < 2^16)
Overflows(c, inc) == Hi(c) + ((Lo(c) + inc) \div 65536) >= 65536

\* c + inc modulo 2^32
WrappingAdd(c, inc) ==
    FromLimbs((Lo(c) + inc) % 65536,
              (Hi(c) + ((Lo(c) + inc) \div 65536)) % 65536)

\* 2^32 - d for 0 < d < 2^16
NegU32(d) == FromLimbs(65536 - d, 65535)

\* -------------------------------------------------- build configuration
\* The rows of the table in the source, one more row with a supported
\* prescaler (increment 2), and one row with an unsupported prescaler.
TableRows == {<<8, 2>>, <<64, 250>>, <<256, 125>>, <<256, 250>>,
              <<1024, 125>>, <<1024, 250>>}
Configs == TableRows \cup {<<8, 4>>, <<32, 8>>}

SupportedPrescalers == {8, 64, 256, 1024}

\* const MICROS_INCREMENT: u32 = PRESCALER * TIMER_COUNTS / 16
MicrosIncrementHalved(p, t) == (p * t) \div 8
MicrosIncrement(p, t) == (p * t) \div 16

VARIABLES
    PRESCALER,        \* const PRESCALER
    TIMER_COUNTS,     \* const TIMER_COUNTS
    overflow_checks,  \* whether the build traps on integer overflow
    MICROS_COUNTER,   \* the static accumulator, four bytes
    sreg_i,           \* SREG.I, the global interrupt enable
    tccr0a,           \* TC0 waveform generation mode
    ocr0a,            \* TC0 compare threshold
    tccr0b,           \* TC0 clock select
    timsk0,           \* TIMSK0.OCIE0A, compare-match interrupt enable
    ocf0a,            \* TIFR0.OCF0A, a compare match is latched
    rxc0,             \* USART0: a received byte is waiting
    udr0,             \* USART0: the received byte
    pc,               \* main context: position in main/micros_init/micros
    saved,            \* main context: SREG.I saved by interrupt::free
    b,                \* main: let b
    time,             \* main: let time (bytes loaded so far)
    tx,               \* lines written to the serial port, as characters
    isr,              \* stack of TIMER0_COMPA frames, innermost last
    triggers,         \* history: compare matches so far
    received,         \* history: bytes delivered by the serial line
    handled,          \* history: TIMER0_COMPA invocations completed
    wraps,            \* history: times the accumulator wrapped
    start,            \* history: accumulator value the behaviour started from
    init_calls,       \* history: calls of micros_init
    prior,            \* history: value the last micros_init reset overwrote
    last,             \* history: previous micros() result and wraps then
    tcnt0,            \* TC0 counter register
    since,            \* history: timer ticks since the last compare match
    period,           \* history: timer ticks between the last two matches
    at_read,          \* history: accumulator when serial.read() returned
    rxlog             \* history: the bytes serial.read() returned, in order

cfg == <<PRESCALER, TIMER_COUNTS, overflow_checks>>
timer == <<tccr0a, ocr0a, tccr0b, timsk0>>
usart == <<rxc0, udr0, received>>
locals == <<saved, b, time>>
hist == <<handled, wraps, start, init_calls, prior, last>>
ticks == <<tcnt0, since, period>>
trace == <<at_read, rxlog>>
vars == <<cfg, MICROS_COUNTER, sreg_i, timer, ocf0a, usart, pc, locals, tx,
          isr, triggers, hist, ticks, trace>>

MICROS_INCREMENT == MicrosIncrement(PRESCALER, TIMER_COUNTS)

\* ------------------------------------------------ avr_device::interrupt
\* interrupt::free(f): save SREG, cli, run f, set I again only if it was set.
FreeCliForgotten(i) == i
FreeCli(i) == FALSE

FreeRestoreAlwaysEnable(s, i) == TRUE
FreeRestoreForgotten(s, i) == i
FreeRestore(s, i) == IF s THEN TRUE ELSE i

\* ------------------------------------------------------------------ Init
NoLast == [set |-> FALSE, t |-> Zero, w |-> 0]

\* Reset: SREG and the timer registers are cleared, statics hold their
\* initializers, main is about to run.
Init ==
    /\ \E c \in Configs : PRESCALER = c[1] /\ TIMER_COUNTS = c[2]
    /\ overflow_checks \in BOOLEAN
    /\ MICROS_COUNTER = Zero
    /\ sreg_i = FALSE
    /\ tccr0a = "normal" /\ ocr0a = 0 /\ tccr0b = "no_clock" /\ timsk0 = FALSE
    /\ ocf0a = FALSE
    /\ rxc0 = FALSE /\ udr0 = 0 /\ received = 0
    /\ pc = "take"
    /\ saved = FALSE /\ b = 0 /\ time = Zero
    /\ tx = <<>>
    /\ isr = <<>>
    /\ triggers = 0 /\ handled = 0 /\ wraps = 0 /\ start = Zero
    /\ init_calls = 0 /\ prior = Zero
    /\ last = NoLast
    /\ tcnt0 = 0 /\ since = 0 /\ period = 0
    /\ at_read = Zero /\ rxlog = <<>>

\* The main context executes only while no handler frame is active.
MainRuns == isr = <<>>

\* ------------------------------------------------------------ micros_init
\* tc0.tccr0b.write(|w| match PRESCALER {...}): the selector, or a panic
ClockSelectDefaulting(p) ==
    CASE p = 8 -> "prescale_8"
      [] p = 64 -> "prescale_64"
      [] p = 256 -> "prescale_256"
      [] p = 1024 -> "prescale_1024"
      [] OTHER -> "prescale_8"
ClockSelect(p) ==
    CASE p = 8 -> "prescale_8"
      [] p = 64 -> "prescale_64"
      [] p = 256 -> "prescale_256"
      [] p = 1024 -> "prescale_1024"
      [] OTHER -> "panic"

micros_init_tccr0a ==
    /\ MainRuns /\ pc = "init_tccr0a"
    /\ tccr0a' = "ctc"
    /\ pc' = "init_ocr0a"
    /\ UNCHANGED <<cfg, MICROS_COUNTER, sreg_i, ocr0a, tccr0b, timsk0, ocf0a,
                   usart, locals, tx, isr, triggers, hist, ticks, trace>>

micros_init_ocr0a_arming ==
    /\ MainRuns /\ pc = "init_ocr0a"
    /\ ocr0a' = TIMER_COUNTS % 256
    /\ timsk0' = TRUE
    /\ pc' = "init_tccr0b"
    /\ UNCHANGED <<cfg, MICROS_COUNTER, sreg_i, tccr0a, tccr0b, ocf0a,
                   usart, locals, tx, isr, triggers, hist, ticks, trace>>
micros_init_ocr0a ==
    /\ MainRuns /\ pc = "init_ocr0a"
    /\ ocr0a' = TIMER_COUNTS % 256
    /\ pc' = "init_tccr0b"
    /\ UNCHANGED <<cfg, MICROS_COUNTER, sreg_i, tccr0a, tccr0b, timsk0, ocf0a,
                   usart, locals, tx, isr, triggers, hist, ticks, trace>>

micros_init_tccr0b ==
    /\ MainRuns /\ pc = "init_tccr0b"
    /\ IF ClockSelect(PRESCALER) = "panic"
         THEN pc' = "panic" /\ tccr0b' = tccr0b
         ELSE pc' = "init_timsk0" /\ tccr0b' = ClockSelect(PRESCALER)
    /\ UNCHANGED <<cfg, MICROS_COUNTER, sreg_i, tccr0a, ocr0a, timsk0, ocf0a,
                   usart, locals, tx, isr, triggers, hist, ticks, trace>>

micros_init_timsk0 ==
    /\ MainRuns /\ pc = "init_timsk0"
    /\ timsk0' = TRUE
    /\ pc' = "init_free_save"
    /\ UNCHANGED <<cfg, MICROS_COUNTER, sreg_i, tccr0a, ocr0a, tccr0b, ocf0a,
                   usart, locals, tx, isr, triggers, hist, ticks, trace>>

micros_init_free_save ==
    /\ MainRuns /\ pc = "init_free_save"
    /\ saved' = sreg_i
    /\ pc' = "init_free_cli"
    /\ UNCHANGED <<cfg, MICROS_COUNTER, sreg_i, timer, ocf0a, usart, b, time,
                   tx, isr, triggers, hist, ticks, trace>>

micros_init_free_cli ==
    /\ MainRuns /\ pc = "init_free_cli"
    /\ sreg_i' = FreeCli(sreg_i)
    /\ pc' = "init_set"
    /\ UNCHANGED <<cfg, MICROS_COUNTER, timer, ocf0a, usart, locals, tx, isr,
                   triggers, hist, ticks, trace>>

micros_init_set ==
    /\ MainRuns /\ pc = "init_set"
    /\ MICROS_COUNTER' = Zero
    /\ prior' = MICROS_COUNTER
    /\ pc' = "init_free_restore"
    /\ UNCHANGED <<cfg, sreg_i, timer, ocf0a, usart, locals, tx, isr, triggers,
                   handled, wraps, start, init_calls, last, ticks, trace>>

micros_init_free_restore ==
    /\ MainRuns /\ pc = "init_free_restore"
    /\ sreg_i' = FreeRestore(saved, sreg_i)
    /\ pc' = "init_return"
    /\ UNCHANGED <<cfg, MICROS_COUNTER, timer, ocf0a, usart, locals, tx, isr,
                   triggers, hist, ticks, trace>>

micros_init ==
    \/ micros_init_tccr0a
    \/ micros_init_ocr0a
    \/ micros_init_tccr0b
    \/ micros_init_timsk0
    \/ micros_init_free_save
    \/ micros_init_free_cli
    \/ micros_init_set
    \/ micros_init_free_restore

\* ------------------------------------------------------------------ micros
GetPc == <<"micros_get_1", "micros_get_2", "micros_get_3", "micros_get_4">>

micros_free_save ==
    /\ MainRuns /\ pc = "micros_free_save"
    /\ saved' = sreg_i
    /\ pc' = "micros_free_cli"
    /\ UNCHANGED <<cfg, MICROS_COUNTER, sreg_i, timer, ocf0a, usart, b, time,
                   tx, isr, triggers, hist, ticks, trace>>

micros_free_cli ==
    /\ MainRuns /\ pc = "micros_free_cli"
    /\ sreg_i' = FreeCli(sreg_i)
    /\ pc' = GetPc[1]
    /\ UNCHANGED <<cfg, MICROS_COUNTER, timer, ocf0a, usart, locals, tx, isr,
                   triggers, hist, ticks, trace>>

\* MICROS_COUNTER.borrow(cs).get(): four byte loads on the 8-bit CPU
micros_get ==
    /\ MainRuns
    /\ \E i \in 1..4 :
         /\ pc = GetPc[i]
         /\ time' = [time EXCEPT ![i] = MICROS_COUNTER[i]]
         /\ pc' = IF i < 4 THEN GetPc[i + 1] ELSE "micros_free_restore"
    /\ UNCHANGED <<cfg, MICROS_COUNTER, sreg_i, timer, ocf0a, usart, saved, b,
                   tx, isr, triggers, hist, ticks, trace>>

micros_free_restore ==
    /\ MainRuns /\ pc = "micros_free_restore"
    /\ sreg_i' = FreeRestore(saved, sreg_i)
    /\ last' = [set |-> TRUE, t |-> time, w |-> wraps]
    /\ pc' = "write"
    /\ UNCHANGED <<cfg, MICROS_COUNTER, timer, ocf0a, usart, locals, tx, isr,
                   triggers, handled, wraps, start, init_calls, prior,
                   ticks, trace>>

micros ==
    \/ micros_free_save
    \/ micros_free_cli
    \/ micros_get
    \/ micros_free_restore

\* -------------------------------------------------------------------- main
\* Peripherals::take().unwrap(), Pins::new, Serial::new, call of micros_init
main_take ==
    /\ MainRuns /\ pc = "take"
    /\ init_calls' = init_calls + 1
    /\ pc' = "init_tccr0a"
    /\ UNCHANGED <<cfg, MICROS_COUNTER, sreg_i, timer, ocf0a, usart, locals, tx,
                   isr, triggers, handled, wraps, start, prior, last,
                   ticks, trace>>

\* unsafe { avr_device::interrupt::enable() }
main_enable ==
    /\ MainRuns /\ pc = "init_return"
    /\ sreg_i' = TRUE
    /\ pc' = "read"
    /\ UNCHANGED <<cfg, MICROS_COUNTER, timer, ocf0a, usart, locals, tx, isr,
                   triggers, hist, ticks, trace>>

\* let b = nb::block!(serial.read()): spins until a byte is waiting
main_read_peek ==
    /\ MainRuns /\ pc = "read"
    /\ rxc0
    /\ b' = udr0
    /\ at_read' = MICROS_COUNTER
    /\ rxlog' = Append(rxlog, udr0)
    /\ pc' = "micros_free_save"
    /\ UNCHANGED <<cfg, MICROS_COUNTER, sreg_i, timer, ocf0a, usart,
                   saved, time, tx, isr, triggers, hist, ticks>>
main_read ==
    /\ MainRuns /\ pc = "read"
    /\ rxc0
    /\ b' = udr0
    /\ rxc0' = FALSE
    /\ at_read' = MICROS_COUNTER
    /\ rxlog' = Append(rxlog, udr0)
    /\ pc' = "micros_free_save"
    /\ UNCHANGED <<cfg, MICROS_COUNTER, sreg_i, timer, ocf0a, udr0, received,
                   saved, time, tx, isr, triggers, hist, ticks>>

\* ufmt's uDisplay for unsigned integers: the digits of n % 10, n / 10, ...
\* until the quotient is 0, most significant first; characters are
\* one-character strings.
DigitChar == <<"0", "1", "2", "3", "4", "5", "6", "7", "8", "9">>

RECURSIVE DecimalU8(_)
DecimalU8(n) ==
    IF n < 10 THEN <<DigitChar[n + 1]>>
    ELSE DecimalU8(n \div 10) \o <<DigitChar[(n % 10) + 1]>>

\* c / 10 and c % 10 for a u32 kept as bytes
Div10(c) ==
    FromLimbs((((Hi(c) % 10) * 65536) + Lo(c)) \div 10, Hi(c) \div 10)
Mod10(c) == (((Hi(c) % 10) * 65536) + Lo(c)) % 10

RECURSIVE DecimalU32Reversed(_)
DecimalU32Reversed(c) ==
    IF Hi(c) = 0 /\ Lo(c) < 10 THEN <<DigitChar[Lo(c) + 1]>>
    ELSE <<DigitChar[Mod10(c) + 1]>> \o DecimalU32Reversed(Div10(c))
RECURSIVE DecimalU32(_)
DecimalU32(c) ==
    IF Hi(c) = 0 /\ Lo(c) < 10 THEN <<DigitChar[Lo(c) + 1]>>
    ELSE DecimalU32(Div10(c)) \o <<DigitChar[Mod10(c) + 1]>>

\* "Got {} after {} us!\r" and the newline uwriteln! adds
Line(byte, t) ==
    <<"G", "o", "t", " ">> \o DecimalU8(byte)
      \o <<" ", "a", "f", "t", "e", "r", " ">> \o DecimalU32(t)
      \o <<" ", "u", "s", "!", "\r", "\n">>

\* ufmt::uwriteln!(&mut serial, "Got {} after {} us!\r", b, time)
main_write ==
    /\ MainRuns /\ pc = "write"
    /\ tx' = Append(tx, Line(b, time))
    /\ time' = Zero
    /\ pc' = "read"
    /\ UNCHANGED <<cfg, MICROS_COUNTER, sreg_i, timer, ocf0a, usart, saved, b,
                   isr, triggers, hist, ticks, trace>>

main ==
    \/ main_take
    \/ main_enable
    \/ main_read
    \/ main_write

\* ------------------------------------------------------------ TIMER0_COMPA
Top == isr[Len(isr)]
SetTop(f) == [isr EXCEPT ![Len(isr)] = f]

\* counter + MICROS_INCREMENT, as stored when the addition does not trap
CounterSaturating(c, inc) ==
    IF Overflows(c, inc) THEN NegU32(1) ELSE WrappingAdd(c, inc)
CounterMinusIncrement(c, inc) == WrappingAdd(c, 0 - inc)
CounterPlusIncrement(c, inc) == WrappingAdd(c, inc)

\* The CPU vectors to the handler: it clears SREG.I and the latched match.
TIMER0_COMPA_vector ==
    /\ Len(isr) < MaxNest
    /\ sreg_i /\ timsk0 /\ ocf0a
    /\ sreg_i' = FALSE
    /\ ocf0a' = FALSE
    /\ isr' = Append(isr, [pc |-> "free_save", tmp |-> Zero, saved |-> FALSE])
    /\ UNCHANGED <<cfg, MICROS_COUNTER, timer, usart, pc, locals, tx, triggers,
                   hist, ticks, trace>>

TIMER0_COMPA_free_save ==
    /\ isr # <<>> /\ Top.pc = "free_save"
    /\ isr' = SetTop([Top EXCEPT !.pc = "free_cli", !.saved = sreg_i])
    /\ UNCHANGED <<cfg, MICROS_COUNTER, sreg_i, timer, ocf0a, usart, pc, locals,
                   tx, triggers, hist, ticks, trace>>

TIMER0_COMPA_free_cli ==
    /\ isr # <<>> /\ Top.pc = "free_cli"
    /\ sreg_i' = FreeCli(sreg_i)
    /\ isr' = SetTop([Top EXCEPT !.pc = "get"])
    /\ UNCHANGED <<cfg, MICROS_COUNTER, timer, ocf0a, usart, pc, locals, tx,
                   triggers, hist, ticks, trace>>

\* let counter = counter_cell.get()
TIMER0_COMPA_get ==
    /\ isr # <<>> /\ Top.pc = "get"
    /\ isr' = SetTop([Top EXCEPT !.pc = "set", !.tmp = MICROS_COUNTER])
    /\ UNCHANGED <<cfg, MICROS_COUNTER, sreg_i, timer, ocf0a, usart, pc, locals,
                   tx, triggers, hist, ticks, trace>>

\* counter_cell.set(counter + MICROS_INCREMENT): the addition traps when the
\* build checks overflow, and wraps otherwise
TIMER0_COMPA_set ==
    /\ isr # <<>> /\ Top.pc = "set"
    /\ IF overflow_checks /\ Overflows(Top.tmp, MICROS_INCREMENT)
         THEN /\ isr' = SetTop([Top EXCEPT !.pc = "panic"])
              /\ UNCHANGED <<MICROS_COUNTER, wraps>>
         ELSE /\ MICROS_COUNTER' = CounterPlusIncrement(Top.tmp, MICROS_INCREMENT)
              /\ wraps' = IF Overflows(Top.tmp, MICROS_INCREMENT)
                            THEN wraps + 1 ELSE wraps
              /\ isr' = SetTop([Top EXCEPT !.pc = "free_restore"])
    /\ UNCHANGED <<cfg, sreg_i, timer, ocf0a, usart, pc, locals, tx, triggers,
                   handled, start, init_calls, prior, last, ticks, trace>>

TIMER0_COMPA_free_restore ==
    /\ isr # <<>> /\ Top.pc = "free_restore"
    /\ sreg_i' = FreeRestore(Top.saved, sreg_i)
    /\ isr' = SetTop([Top EXCEPT !.pc = "reti"])
    /\ UNCHANGED <<cfg, MICROS_COUNTER, timer, ocf0a, usart, pc, locals, tx,
                   triggers, hist, ticks, trace>>

\* Return from the handler: reti sets SREG.I.
TIMER0_COMPA_reti ==
    /\ isr # <<>> /\ Top.pc = "reti"
    /\ sreg_i' = TRUE
    /\ isr' = SubSeq(isr, 1, Len(isr) - 1)
    /\ handled' = handled + 1
    /\ UNCHANGED <<cfg, MICROS_COUNTER, timer, ocf0a, usart, pc, locals, tx,
                   triggers, wraps, start, init_calls, prior, last,
                   ticks, trace>>

TIMER0_COMPA ==
    \/ TIMER0_COMPA_vector
    \/ TIMER0_COMPA_free_save
    \/ TIMER0_COMPA_free_cli
    \/ TIMER0_COMPA_get
    \/ TIMER0_COMPA_set
    \/ TIMER0_COMPA_free_restore
    \/ TIMER0_COMPA_reti

\* ------------------------------------------------------------- environment
\* TC0 reaches OCR0A while it is clocked: the match is latched in OCF0A,
\* one bit, whether or not an earlier match is still latched.  A latched
\* match the CPU can vector to is taken at the next instruction boundary,
\* sooner than the shortest interval between two matches, so a further
\* match finds one still latched only while vectoring is held off.
TimerCompareMatch ==
    /\ tccr0b # "no_clock"
    /\ triggers < MaxTriggers
    /\ ~(sreg_i /\ timsk0 /\ ocf0a)
    /\ ocf0a' = TRUE
    /\ triggers' = triggers + 1
    /\ UNCHANGED <<cfg, MICROS_COUNTER, sreg_i, timer, usart, pc, locals, tx,
                   isr, hist, ticks, trace>>

\* A byte arrives on the serial line once Serial::new has run.
SerialReceive ==
    /\ pc # "take"
    /\ ~rxc0
    /\ received < MaxBytes
    /\ \E byte \in Bytes : udr0' = byte
    /\ rxc0' = TRUE
    /\ received' = received + 1
    /\ UNCHANGED <<cfg, MICROS_COUNTER, sreg_i, timer, ocf0a, pc, locals, tx,
                   isr, triggers, hist, ticks, trace>>

\* ------------------------------------------------------- the whole program
Next ==
    \/ main
    \/ micros_init
    \/ micros
    \/ TIMER0_COMPA
    \/ TimerCompareMatch
    \/ SerialReceive

Spec == Init /\ [][Next]_vars

\* ------------------------------------------------- a long-running program
\* The Serve loop after the accumulator has advanced for a long time: the
\* two largest multiples of the increment below 2^32, which the handler
\* reaches from 0 without wrapping.  2^32 mod inc, for inc < 2^16:
Pow32Mod(inc) == ((65536 % inc) * 65536) % inc
LastMultiple(inc) == NegU32(IF Pow32Mod(inc) = 0 THEN inc ELSE Pow32Mod(inc))
WarmValues(inc) ==
    {LastMultiple(inc),
     NegU32((IF Pow32Mod(inc) = 0 THEN inc ELSE Pow32Mod(inc)) + inc)}

\* Snapshots of the Serve loop: the accumulator, the value it started from
\* and the handler invocations completed since.  Besides the values near
\* 2^32: 12345 microseconds, and the last MaxTriggers invocations of the
\* first thousand, both with the 1 us increment.
Snapshots(inc) ==
    {[counter |-> v, start |-> v, handled |-> 0] : v \in WarmValues(inc)}
      \cup (IF inc = 1
              THEN {[counter |-> FromLimbs(12345, 0),
                     start |-> FromLimbs(12345, 0), handled |-> 0],
                    [counter |-> FromLimbs(1000 - MaxTriggers, 0),
                     start |-> Zero, handled |-> 1000 - MaxTriggers]}
              ELSE {})

InitWarm ==
    /\ \E c \in Configs :
         /\ c[1] \in SupportedPrescalers
         /\ PRESCALER = c[1] /\ TIMER_COUNTS = c[2]
         /\ ocr0a = c[2] % 256
         /\ tccr0b = ClockSelect(c[1])
         /\ \E snap \in Snapshots(MicrosIncrement(c[1], c[2])) :
              /\ MICROS_COUNTER = snap.counter
              /\ start = snap.start
              /\ handled = snap.handled
    /\ overflow_checks \in BOOLEAN
    /\ sreg_i = TRUE
    /\ tccr0a = "ctc" /\ timsk0 = TRUE
    /\ ocf0a = FALSE
    /\ rxc0 = FALSE /\ udr0 = 0 /\ received = 0
    /\ pc = "read"
    /\ saved = FALSE /\ b = 0 /\ time = Zero
    /\ tx = <<>>
    /\ isr = <<>>
    /\ triggers = 0 /\ wraps = 0
    /\ init_calls = 1 /\ prior = Zero
    /\ last = NoLast
    /\ tcnt0 = 0 /\ since = 0 /\ period = 0
    /\ at_read = Zero /\ rxlog = <<>>

NextWarm ==
    \/ main_read
    \/ main_write
    \/ micros
    \/ TIMER0_COMPA
    \/ TimerCompareMatch
    \/ SerialReceive

SpecWarm == InitWarm /\ [][NextWarm]_vars

\* ------------------------------------------- micros_init called on its own
\* micros_init entered with any accumulator value and either interrupt
\* state, and entered again when it returns.
PriorValues == {Zero, FromLimbs(16000, 0), FromLimbs(0, 1), NegU32(1)}

InitHarness ==
    /\ \E c \in Configs : PRESCALER = c[1] /\ TIMER_COUNTS = c[2]
    /\ overflow_checks \in BOOLEAN
    /\ MICROS_COUNTER \in PriorValues
    /\ start = MICROS_COUNTER
    /\ sreg_i \in BOOLEAN
    /\ tccr0a = "normal" /\ ocr0a = 0 /\ tccr0b = "no_clock" /\ timsk0 = FALSE
    /\ ocf0a = FALSE
    /\ rxc0 = FALSE /\ udr0 = 0 /\ received = 0
    /\ pc = "init_tccr0a"
    /\ saved = FALSE /\ b = 0 /\ time = Zero
    /\ tx = <<>>
    /\ isr = <<>>
    /\ triggers = 0 /\ handled = 0 /\ wraps = 0
    /\ init_calls = 1 /\ prior = Zero
    /\ last = NoLast
    /\ tcnt0 = 0 /\ since = 0 /\ period = 0
    /\ at_read = Zero /\ rxlog = <<>>

micros_init_again ==
    /\ MainRuns /\ pc = "init_return"
    /\ init_calls < MaxInitCalls
    /\ init_calls' = init_calls + 1
    /\ pc' = "init_tccr0a"
    /\ UNCHANGED <<cfg, MICROS_COUNTER, sreg_i, timer, ocf0a, usart, locals, tx,
                   isr, triggers, handled, wraps, start, prior, last,
                   ticks, trace>>

NextHarness ==
    \/ micros_init
    \/ micros_init_again
    \/ TIMER0_COMPA
    \/ TimerCompareMatch

SpecInit == InitHarness /\ [][NextHarness]_vars

\* ----------------------------------------------- the timer, tick by tick
\* One tick of the prescaled clock of TC0 as micros_init leaves it: in CTC
\* mode TCNT0 counts 0, 1, ..., OCR0A and the tick after it has reached
\* OCR0A clears it and latches the compare match in OCF0A.  `since` counts
\* the ticks since the last match, `period` holds the ticks between the
\* last two matches (or from the start of the clock to the first match).
TimerTick ==
    /\ tccr0b # "no_clock"
    /\ triggers < MaxTriggers
    /\ IF tccr0a = "ctc" /\ tcnt0 = ocr0a
         THEN /\ tcnt0' = 0
              /\ ocf0a' = TRUE
              /\ triggers' = triggers + 1
              /\ period' = since + 1
              /\ since' = 0
         ELSE /\ tcnt0' = (tcnt0 + 1) % 256
              /\ since' = since + 1
              /\ UNCHANGED <<ocf0a, triggers, period>>
    /\ UNCHANGED <<cfg, MICROS_COUNTER, sreg_i, timer, usart, pc, locals, tx,
                   isr, hist, trace>>

\* Setup up to the return of micros_init, with the timer's clock running.
NextTimer ==
    \/ main_take
    \/ micros_init
    \/ TimerTick

SpecTimer == Init /\ [][NextTimer]_vars

\* ================================================================ claims
\* (v + n * inc) mod 2^32, computed from the total n * inc (n * inc < 2^31)
Expected(v, n, inc) ==
    FromLimbs((Lo(v) + n * inc) % 65536,
              (Hi(v) + ((Lo(v) + n * inc) \div 65536)) % 65536)

ServePcs == {"read", "micros_free_save", "micros_free_cli", "micros_get_1",
             "micros_get_2", "micros_get_3", "micros_get_4",
             "micros_free_restore", "write"}

\* C1: starting from accumulator value V, once N handler invocations have
\* completed and while no further one is in progress, the accumulator is
\* (V + N * MICROS_INCREMENT) mod 2^32 and that is the value micros() has
\* loaded when its read completes.
C1_ReaderObservesSum ==
    isr = <<>> =>
        /\ MICROS_COUNTER = Expected(start, handled, MICROS_INCREMENT)
        /\ pc = "micros_free_restore" =>
               time = Expected(start, handled, MICROS_INCREMENT)

C1_Witness ==
    /\ isr = <<>> /\ pc = "micros_free_restore"
    /\ handled >= 2 /\ wraps = 1
    /\ time = Expected(start, handled, MICROS_INCREMENT)

\* C2: the handler's addition wraps modulo 2^32 and never panics: no handler
\* frame is ever halted in a panic, and an invocation that read u32::MAX - 1
\* with MICROS_INCREMENT = 2 has stored 0.
C2_OverflowWrapsSilently ==
    /\ \A i \in 1..Len(isr) : isr[i].pc # "panic"
    /\ (/\ isr # <<>> /\ Top.pc = "free_restore"
        /\ MICROS_INCREMENT = 2 /\ Top.tmp = NegU32(2))
         => MICROS_COUNTER = Zero

\* C3: every access to the accumulator (the reset in micros_init, the loads
\* in micros(), the read-modify-write in the handler) runs with SREG.I
\* clear, no handler frame exists while main is inside one of its critical
\* sections, and the value micros() has loaded is the value the accumulator
\* holds at that instant.
C3_AccessesInCriticalSection ==
    /\ pc \in {"init_set", "init_free_restore", "micros_get_1",
               "micros_get_2", "micros_get_3", "micros_get_4",
               "micros_free_restore"} => (isr = <<>> /\ ~sreg_i)
    /\ (isr # <<>> /\ Top.pc \in {"get", "set", "free_restore"}) => ~sreg_i
    /\ pc = "micros_free_restore" => time = MICROS_COUNTER

C3_Witness ==
    /\ isr = <<>> /\ pc = "micros_free_restore"
    /\ handled >= 1 /\ ocf0a /\ ~sreg_i
    /\ time = MICROS_COUNTER /\ time # Zero

\* C4: handler invocations never nest; the value an invocation read is still
\* the accumulator's value when it writes, and between invocations the
\* accumulator holds one increment per completed invocation.
C4_HandlerNeverNests ==
    /\ Len(isr) <= 1
    /\ (isr # <<>> /\ Top.pc = "set") => Top.tmp = MICROS_COUNTER
    /\ isr = <<>> =>
           MICROS_COUNTER = Expected(start, handled, MICROS_INCREMENT)

C4_Witness ==
    /\ Len(isr) = 1 /\ Top.pc = "set"
    /\ handled >= 1 /\ ocf0a
    /\ Top.tmp = MICROS_COUNTER

\* C5: when micros_init leaves its critical section the accumulator is 0,
\* whatever it held before, on a first call and on a second call alike; when
\* it was entered with interrupts disabled the accumulator is still 0 when it
\* returns.
C5_InitResetsAccumulator ==
    /\ pc = "init_free_restore" => MICROS_COUNTER = Zero
    /\ (pc = "init_return" /\ ~saved) => MICROS_COUNTER = Zero

C5_Witness ==
    /\ pc = "init_free_restore" /\ isr = <<>>
    /\ init_calls = 2 /\ prior # Zero
    /\ MICROS_COUNTER = Zero

\* C6: with a PRESCALER outside {8, 64, 256, 1024} micros_init never gets
\* past the clock-select write: it panics there and the clock select keeps
\* its reset value.
C6_UnsupportedPrescalerPanics ==
    PRESCALER \notin SupportedPrescalers =>
        /\ tccr0b = "no_clock"
        /\ pc \in {"take", "init_tccr0a", "init_ocr0a", "init_tccr0b", "panic"}

C6_Witness ==
    /\ PRESCALER \notin SupportedPrescalers
    /\ pc = "panic" /\ tccr0b = "no_clock" /\ tccr0a = "ctc"

\* The increments the table's rows are said to yield.
TableIncrement(p, t) ==
    CASE p = 8 /\ t = 2 -> 1
      [] p = 64 /\ t = 250 -> 1000
      [] p = 256 /\ t = 125 -> 2000
      [] p = 256 /\ t = 250 -> 4000
      [] p = 1024 /\ t = 125 -> 8000
      [] p = 1024 /\ t = 250 -> 16000

\* C7: for every row of the table MICROS_INCREMENT is the row's increment,
\* 16 * MICROS_INCREMENT is exactly PRESCALER * TIMER_COUNTS, and the product
\* is below 2^32.
C7_IncrementExact ==
    <<PRESCALER, TIMER_COUNTS>> \in TableRows =>
        /\ MICROS_INCREMENT = TableIncrement(PRESCALER, TIMER_COUNTS)
        /\ 16 * MICROS_INCREMENT = PRESCALER * TIMER_COUNTS
        /\ (PRESCALER * TIMER_COUNTS) \div 65536 < 65536

C7_Witness ==
    /\ PRESCALER = 1024 /\ TIMER_COUNTS = 250
    /\ handled = 1 /\ isr = <<>>
    /\ MICROS_COUNTER = FromLimbs(16000, 0)

\* C8: micros_init is called once and never again; when it has returned the
\* timer is configured, the compare-match interrupt is armed, the accumulator
\* is 0 and interrupts are still disabled; interrupts are enabled, and a
\* handler runs, only once main is in the Serve loop, and the loop in the
\* main context runs with interrupts enabled outside critical sections.
C8_InitOnceBeforeEnable ==
    /\ init_calls <= 1
    /\ pc # "take" => init_calls = 1
    /\ pc = "init_return" =>
           /\ tccr0a = "ctc" /\ ocr0a = TIMER_COUNTS % 256
           /\ tccr0b = ClockSelect(PRESCALER) /\ timsk0
           /\ MICROS_COUNTER = Zero
    /\ (sreg_i \/ isr # <<>>) => pc \in ServePcs
    /\ (isr = <<>> /\ pc \in {"read", "micros_free_save", "write"}) => sreg_i

C8_Witness ==
    /\ pc = "init_return" /\ ocf0a /\ ~sreg_i /\ timsk0
    /\ MICROS_COUNTER = Zero

C10_MonotoneExceptWrap ==
    /\ [](( /\ isr = <<>> /\ pc = "micros_free_restore"
            /\ last.set /\ last.w = wraps) => LeqU32(last.t, time))
    /\ [][\/ LeqU32(MICROS_COUNTER, MICROS_COUNTER')
          \/ wraps' = wraps + 1
          \/ pc = "init_set"]_vars

C10_Witness ==
    /\ isr = <<>> /\ pc = "micros_free_restore"
    /\ last.set /\ last.w < wraps
    /\ ~LeqU32(last.t, time)

\* Reading a decimal numeral back: the digits' values, most significant
\* first, by Horner's rule; <<>> when the value does not fit a u32.
Digits == {"0", "1", "2", "3", "4", "5", "6", "7", "8", "9"}
DigitValue(ch) ==
    CASE ch = "0" -> 0 [] ch = "1" -> 1 [] ch = "2" -> 2 [] ch = "3" -> 3
      [] ch = "4" -> 4 [] ch = "5" -> 5 [] ch = "6" -> 6 [] ch = "7" -> 7
      [] ch = "8" -> 8 [] ch = "9" -> 9

Canonical(d) ==
    /\ Len(d) >= 1
    /\ \A i \in 1..Len(d) : d[i] \in Digits
    /\ Len(d) > 1 => d[1] # "0"

RECURSIVE ParseSmall(_)
ParseSmall(d) ==
    IF d = <<>> THEN 0
    ELSE 10 * ParseSmall(SubSeq(d, 1, Len(d) - 1)) + DigitValue(d[Len(d)])

MulAdd10(c, d) ==
    IF Hi(c) * 10 + ((Lo(c) * 10 + d) \div 65536) >= 65536 THEN <<>>
    ELSE FromLimbs((Lo(c) * 10 + d) % 65536,
                   Hi(c) * 10 + ((Lo(c) * 10 + d) \div 65536))

RECURSIVE ParseU32(_)
ParseU32(d) ==
    IF d = <<>> THEN Zero
    ELSE IF ParseU32(SubSeq(d, 1, Len(d) - 1)) = <<>> THEN <<>>
    ELSE MulAdd10(ParseU32(SubSeq(d, 1, Len(d) - 1)), DigitValue(d[Len(d)]))

\* l is 'Got ', the decimal numeral of byte, ' after ', the decimal numeral
\* of t, ' us!', carriage return, newline
IsLineFor(l, byte, t) ==
    \E k \in 1..3, m \in 1..10 :
        /\ Len(l) = 17 + k + m
        /\ SubSeq(l, 1, 4) = <<"G", "o", "t", " ">>
        /\ Canonical(SubSeq(l, 5, 4 + k))
        /\ ParseSmall(SubSeq(l, 5, 4 + k)) = byte
        /\ SubSeq(l, 5 + k, 11 + k) = <<" ", "a", "f", "t", "e", "r", " ">>
        /\ Canonical(SubSeq(l, 12 + k, 11 + k + m))
        /\ ParseU32(SubSeq(l, 12 + k, 11 + k + m)) = t
        /\ SubSeq(l, 12 + k + m, 17 + k + m)
             = <<" ", "u", "s", "!", "\r", "\n">>

ExampleLine ==
    <<"G", "o", "t", " ", "6", "5", " ", "a", "f", "t", "e", "r", " ",
      "1", "2", "3", "4", "5", " ", "u", "s", "!", "\r", "\n">>

\* C11: the write step of the Serve loop appends exactly one line, made of
\* 'Got ', the decimal numeral of the byte read, ' after ', the decimal
\* numeral of the reading, ' us!', CR, LF; for byte 65 and reading 12345 it
\* is 'Got 65 after 12345 us!\r\n'.
C11_LineFormat ==
    [][(pc = "write" /\ pc' = "read") =>
          /\ Len(tx') = Len(tx) + 1
          /\ SubSeq(tx', 1, Len(tx)) = tx
          /\ IsLineFor(tx'[Len(tx')], b, time)
          /\ (b = 65 /\ time = FromLimbs(12345, 0)) =>
                 tx'[Len(tx')] = ExampleLine]_vars

C11_Witness ==
    /\ Len(tx) = 2
    /\ tx[1] = ExampleLine
    /\ tx[2] # ExampleLine

\* C12: with PRESCALER = 8 and TIMER_COUNTS = 2, when the handler has
\* completed 1000 invocations since the accumulator was 0, the accumulator
\* is 1000 and micros() loads 1000.
C12_ThousandTriggers ==
    (/\ PRESCALER = 8 /\ TIMER_COUNTS = 2
     /\ start = Zero /\ handled = 1000 /\ isr = <<>>) =>
        /\ MICROS_COUNTER = FromLimbs(1000, 0)
        /\ pc = "micros_free_restore" => time = FromLimbs(1000, 0)

C12_Witness ==
    /\ PRESCALER = 8 /\ TIMER_COUNTS = 2
    /\ start = Zero /\ handled = 1000 /\ isr = <<>>
    /\ pc = "micros_free_restore" /\ time = FromLimbs(1000, 0)

MicrosPcs == {"micros_free_save", "micros_free_cli", "micros_get_1",
              "micros_get_2", "micros_get_3", "micros_get_4",
              "micros_free_restore"}

\* C13: no step of micros() changes the accumulator or a timer register or
\* ends in a panic, when micros() has returned SREG.I is what it was when
\* micros() was entered, and once micros_init has returned no step changes
\* a timer register.
C13_MicrosPureRead ==
    /\ []((isr = <<>> /\ pc = "write") => (sreg_i = saved /\ sreg_i))
    /\ [][(isr = <<>> /\ pc \in MicrosPcs) =>
             /\ MICROS_COUNTER' = MICROS_COUNTER
             /\ timer' = timer
             /\ pc' # "panic"]_vars
    /\ [][(pc \in ServePcs \cup {"init_return"}) => (timer' = timer)]_vars

C13_Witness ==
    /\ isr = <<>> /\ pc = "write" /\ sreg_i
    /\ handled >= 1 /\ ocf0a = FALSE
    /\ time = MICROS_COUNTER /\ time # Zero

\* (a - c) mod 2^32
SubU32(a, c) ==
    FromLimbs((Lo(a) - Lo(c)) % 65536,
              (Hi(a) - Hi(c) - (IF Lo(a) < Lo(c) THEN 1 ELSE 0)) % 65536)

\* The byte a line reports: the numeral after 'Got '.
ByteOfLine(l) ==
    ParseSmall(SubSeq(l, 5, 4 + (CHOOSE k \in 1..3 : l[5 + k] = " ")))

\* C14: every byte that arrived is read once, the lines written are the
\* lines of the bytes read, in order, one per byte (the byte just read has
\* none yet), and the reading in a line is taken between the receipt of its
\* byte and its write: going up from the accumulator's value at receipt,
\* modulo 2^32, the reading comes no later than the value at the write.
C14_OneLinePerByteInOrder ==
    /\ Len(rxlog) + (IF rxc0 THEN 1 ELSE 0) = received
    /\ Len(tx) = Len(rxlog) - (IF pc \in MicrosPcs \cup {"write"} THEN 1 ELSE 0)
    /\ \A i \in 1..Len(tx) : ByteOfLine(tx[i]) = rxlog[i]
    /\ (isr = <<>> /\ pc = "write") =>
           /\ b = rxlog[Len(rxlog)]
           /\ LeqU32(SubU32(time, at_read), SubU32(MICROS_COUNTER, at_read))

C14_Witness ==
    /\ isr = <<>> /\ pc = "write" /\ Len(tx) = 1
    /\ rxlog[1] # rxlog[2]
    /\ time # at_read /\ time # MICROS_COUNTER
    /\ ~LeqU32(at_read, time)

\* C15: the Serve loop never halts: while a byte that arrived still awaits
\* its output line, no context is stopped in a panic, so the loop can go on
\* to write the line and wait for the next byte.
C15_ServeNeverHalts ==
    (/\ pc \in ServePcs
     /\ Len(tx) < Len(rxlog) + (IF rxc0 THEN 1 ELSE 0)) =>
        /\ pc # "panic"
        /\ \A i \in 1..Len(isr) : isr[i].pc # "panic"

\* The microseconds a number of prescaled ticks lasts at 16 MHz, times 16.
SixteenthsOfMicros(n) == n * PRESCALER

\* C16: when micros_init has returned with a supported PRESCALER the timer
\* is in CTC mode, OCR0A holds TIMER_COUNTS, the clock select is the one of
\* PRESCALER, the compare-match interrupt is armed and the accumulator is 0,
\* and every compare match comes TIMER_COUNTS prescaled ticks after the one
\* before, which is MICROS_INCREMENT whole microseconds.
C16_TriggerEveryTimerCounts ==
    PRESCALER \in SupportedPrescalers =>
        /\ pc = "init_return" =>
               /\ tccr0a = "ctc" /\ ocr0a = TIMER_COUNTS
               /\ tccr0b = ClockSelect(PRESCALER) /\ timsk0
               /\ MICROS_COUNTER = Zero
        /\ triggers >= 1 =>
               /\ period = TIMER_COUNTS
               /\ SixteenthsOfMicros(period) = 16 * MICROS_INCREMENT

InitPcs == {"init_tccr0a", "init_ocr0a", "init_tccr0b", "init_timsk0",
            "init_free_save", "init_free_cli", "init_set",
            "init_free_restore"}

\* C17: leaving its critical section micros_init puts back the interrupt
\* state it found, disabled, so from the arming of the compare-match
\* interrupt to the enable in main no handler runs, and at the step that
\* first enables interrupts the accumulator is 0.
C17_RestoreKeepsInterruptsOff ==
    /\ []((pc \in InitPcs \cup {"init_return"}) =>
              (~sreg_i /\ isr = <<>> /\ handled = 0))
    /\ [][(pc = "init_free_restore" /\ pc' = "init_return") =>
              (~saved /\ sreg_i' = saved /\ timsk0)]_vars
    /\ [][(pc = "init_return" /\ pc' = "read") =>
              (/\ ~sreg_i /\ sreg_i' /\ handled = 0
               /\ MICROS_COUNTER = Zero /\ MICROS_COUNTER' = Zero)]_vars

C17_Witness ==
    /\ pc = "read" /\ isr = <<>> /\ sreg_i /\ timsk0
    /\ ocf0a /\ triggers = 2 /\ handled = 0
    /\ MICROS_COUNTER = Zero

\* C18: a micros_init that panics on its PRESCALER has not armed the
\* compare-match interrupt, reset the accumulator or enabled interrupts,
\* and from then on nothing happens: no handler runs, the accumulator and
\* the timer registers keep their values and no line is written.
C18_FailureBeforeArming ==
    /\ [](pc = "panic" =>
              /\ ~timsk0 /\ ~sreg_i /\ tccr0b = "no_clock"
              /\ isr = <<>> /\ handled = 0 /\ triggers = 0
              /\ MICROS_COUNTER = Zero /\ init_calls = 1
              /\ tx = <<>> /\ rxlog = <<>>)
    /\ [][(pc # "panic" /\ pc' = "panic") => pc = "init_tccr0b"]_vars
    /\ [][pc = "panic" =>
              /\ pc' = "panic"
              /\ MICROS_COUNTER' = MICROS_COUNTER
              /\ timer' = timer /\ sreg_i' = sreg_i
              /\ isr' = isr /\ tx' = tx]_vars

C18_Witness ==
    /\ pc = "panic" /\ PRESCALER \notin SupportedPrescalers
    /\ rxc0 /\ received = 1
    /\ ~timsk0 /\ ~sreg_i /\ tx = <<>>
====
